---- MODULE Spec2Model ----
(***************************************************************************)
(* Route Animator (src/app/page.tsx): the GPX cleaning and resampling      *)
(* pipeline, the preview loop of the Page component and the MP4 export.    *)
(*                                                                         *)
(* Numbers.  A JavaScript number that can be NaN (a coordinate read by     *)
(* parseFloat, a distance computed from one) is a record [k, v]: N(v) is   *)
(* the finite value v, NaN is not-a-number, Undefined is a missing         *)
(* optional field.  Finite coordinates and distances are fixed-point       *)
(* integers (one unit of latitude or longitude is one metre on the         *)
(* ground); timestamps are integer milliseconds.  A value that the code    *)
(* obtains by a division (a target time, a progress fraction, a pace) is   *)
(* kept exact as a fraction [n, d] with d > 0.                             *)
(***************************************************************************)
EXTENDS Integers, Sequences, FiniteSets, TLC

\* ------------------------------------------------------------------ bounds
MaxPts == 3          \* longest point sequence given to resample
MaxT == 3            \* largest timestamp (ms) of an input point
MaxCoord == 1        \* largest finite coordinate of an input point, in Grid units
Grid == 4            \* spacing of the input coordinates on the fixed-point grid
MaxDurTicks == 3     \* longest durationSec, in 1/TicksPerSec seconds
TicksPerSec == 30    \* resolution in which a durationSec is expressed

\* --------------------------------------------------------------- constants
FPS == 30            \* frame rate of the samples and of the exported video

VARIABLES
  rIn,      \* a function under test: its arguments (resample: [points, fps, durTicks])
  rOut,     \* a function under test: the returned value
  rDone,    \* a function under test: TRUE once it has returned
  durationSec,   \* useState(20): animation duration, in 1/TicksPerSec seconds
  privacyM,      \* useState(120)
  samples,       \* useState<ProjPt[]>([])
  pan,           \* useState({x:0,y:0})
  zoom,          \* useState(1), in 1/ZoomUnit
  showLegend,    \* useState(false)
  legendXY,      \* useState<{x,y}|null>(null)
  loads,         \* the invocations of onFile that await parseGpx
  showWeather,   \* useState(false)
  weather,       \* useState<{tempC,windKmh}|null>(null): the lookup it answers
  lookups,       \* the calls of fetchHistoricalWeather that await their answer
  animRef,       \* useRef<number|null>(null): id of the scheduled tick
  startRef,      \* useRef<number|null>(null): timestamp of the playback start
  pausedRef,     \* useRef(false)
  raf,           \* the pending requestAnimationFrame callbacks
  clock,         \* the time of the last animation frame, in 1/TicksPerSec seconds
  drag,          \* useRef({down,sx,sy,ox,oy})
  legendDrag,    \* useRef({down,offx,offy})
  clickGuard,    \* useRef({moved})
  dragged,       \* history: the pointer gesture has moved the route or the legend
  pointer,       \* the pointer gesture on the canvas: "idle", "down", "released"
  canvas,        \* what the last drawFrame left on the shared canvas
  status,        \* useState("")
  phase,         \* useState<""|"frames"|"encoding">("")
  progress,      \* useState(0), a fraction
  ffmpeg,        \* useState<any|null>(null): TRUE when the instance is cached
  loadingFfmpeg, \* useState(false)
  abortRef,      \* useRef(false)
  enc,           \* the FFmpeg instance: its worker state and its file system
  exports        \* the invocations of exportMp4, by order of invocation

resampleVars == <<rIn, rOut, rDone>>
weatherVars == <<showWeather, weather, lookups>>
trackVars == <<durationSec, privacyM, samples, pan, zoom, showLegend, legendXY, loads,
               weatherVars>>
previewVars == <<animRef, startRef, pausedRef, raf, clock>>
pointerVars == <<drag, legendDrag, clickGuard, pointer, dragged>>
pageVars == <<trackVars, previewVars, pointerVars>>
exportVars == <<status, phase, progress, ffmpeg, loadingFfmpeg, abortRef, enc, exports>>

vars == <<resampleVars, pageVars, canvas, exportVars>>

\* ----------------------------------------------------------------- numbers
N(v) == [k |-> "num", v |-> v]
NaN == [k |-> "nan", v |-> 0]
Undefined == [k |-> "undef", v |-> 0]

isFinite(x) == x.k = "num"

Max2(a, b) == IF a >= b THEN a ELSE b
Min2(a, b) == IF a <= b THEN a ELSE b
Abs(a) == IF a < 0 THEN -a ELSE a

\* Math.round of the fraction n/d (d > 0): halves round towards +infinity.
Round(n, d) == (2 * n + d) \div (2 * d)

\* a <= b on numbers: false as soon as one side is NaN.
fLeq(a, b) == isFinite(a) /\ isFinite(b) /\ a.v <= b.v

fAdd(a, b) == IF isFinite(a) /\ isFinite(b) THEN N(a.v + b.v) ELSE NaN

\* Sequence indices are 1-based: the code's points[j] is points[j+1] here.
Last(s) == s[Len(s)]

Frac(n, d) == [n |-> n, d |-> d]
FracEq(p, q) == p.n * q.d = q.n * p.d
FracLeq(p, q) == p.n * q.d <= q.n * p.d
FracLt(p, q) == p.n * q.d < q.n * p.d

\* ------------------------------------------------------------- geo helpers
\* Great-circle distance in metres.  On the model's grid the distance of two
\* points is the sum of their coordinate differences; it is NaN when a
\* coordinate is NaN, zero exactly for equal points, symmetric and additive
\* along a straight line, as the haversine formula is.
haversine(a, b) ==
  IF isFinite(a.lat) /\ isFinite(a.lon) /\ isFinite(b.lat) /\ isFinite(b.lon)
  THEN N(Abs(b.lat.v - a.lat.v) + Abs(b.lon.v - a.lon.v))
  ELSE NaN

\* --------------------------------------------------------------- parseGpx
\* A GPX document is [trkpt, rtept]: the trkpt and the rtept elements in
\* document order.  A node is [lat, lon, ele, time]: lat and lon are the
\* attribute read by parseFloat (N(v), NaN when malformed, Undefined when the
\* attribute is missing); ele is the <ele> child likewise; time is the parsed
\* <time> child: N(ms), NaN when unparseable, Undefined when there is no
\* <time> child, and [k |-> "empty"] when its text is empty.
EmptyText == [k |-> "empty", v |-> 0]

\* parseFloat(n.getAttribute("lat") || "0")
ParseAttr(a) == IF a.k = "undef" THEN N(0) ELSE a

\* timeNode ? new Date(timeNode.textContent || Date.now()).getTime() : NaN
ParseTime(tm, nowMs) ==
  IF tm.k = "num" THEN tm
  ELSE IF tm.k = "empty" THEN N(nowMs)
  ELSE NaN

\* pts.sort((a,b)=>a.t-b.t): a stable sort by timestamp; the point at
\* position k is the one with k points before or at it in that order
SortByT(pts) ==
  LET Rank(i) == Cardinality({j \in 1..Len(pts) :
                                \/ pts[j].t.v < pts[i].t.v
                                \/ pts[j].t.v = pts[i].t.v /\ j <= i})
  IN [k \in 1..Len(pts) |-> pts[CHOOSE i \in 1..Len(pts) : Rank(i) = k]]

\* The iterations of the dedup loop for the points lo..hi, run on the kept
\* points out: the first half of the range, then the second on what the first
\* half kept (the loop only ever appends, so kept is never shorter).
RECURSIVE DedupIterations(_, _, _, _)
DedupIterations(pts, lo, hi, out) ==
  IF lo > hi THEN out
  ELSE IF lo = hi
       THEN IF out = <<>> \/ pts[lo].t # Last(out).t THEN Append(out, pts[lo]) ELSE out
       ELSE LET mid == (lo + hi) \div 2
                kept == DedupIterations(pts, lo, mid, out)
            IN IF Len(kept) >= Len(out)
               THEN DedupIterations(pts, mid + 1, hi, kept)
               ELSE kept

\* const out=[]; for (const p of pts) if (!out.length || p.t !== out.at(-1).t) out.push(p)
Dedup(pts) == DedupIterations(pts, 1, Len(pts), <<>>)

\* parseGpx that sorts by the parsed timestamps whatever they are.
parseGpxSortOnly(file, nowMs) ==
  LET nodes == IF Len(file.trkpt) > 0 THEN file.trkpt ELSE file.rtept
      pts == [i \in 1..Len(nodes) |->
                [lat |-> ParseAttr(nodes[i].lat), lon |-> ParseAttr(nodes[i].lon),
                 ele |-> nodes[i].ele, t |-> ParseTime(nodes[i].time, nowMs)]]
      out == Dedup(SortByT(pts))
  IN [i \in 1..Len(out) |-> [out[i] EXCEPT !.t = out[i].t.v]]

\* async function parseGpx(file): Pt[]; nowMs is the value of Date.now().
\* The timestamps of the result are finite, so they are plain integers there.
parseGpx(file, nowMs) ==
  LET nodes == IF Len(file.trkpt) > 0 THEN file.trkpt ELSE file.rtept
      pts == [i \in 1..Len(nodes) |->
                [lat |-> ParseAttr(nodes[i].lat), lon |-> ParseAttr(nodes[i].lon),
                 ele |-> nodes[i].ele, t |-> ParseTime(nodes[i].time, nowMs)]]
      synth == \/ \E i \in 1..Len(pts) : ~isFinite(pts[i].t)
               \/ \E i \in 2..Len(pts) : ~(pts[i].t.v > pts[i - 1].t.v)
      timed == IF synth
               THEN [i \in 1..Len(pts) |-> [pts[i] EXCEPT !.t = N(nowMs + (i - 1) * 1000)]]
               ELSE SortByT(pts)
      out == Dedup(timed)
  IN IF Len(nodes) = 0 THEN <<>>
     ELSE [i \in 1..Len(out) |-> [out[i] EXCEPT !.t = out[i].t.v]]

\* ---------------------------------------------------------------- cleaning
\* smoothElev window (default parameter)
ElevWindow == 7

RECURSIVE SumEle(_, _, _)
SumEle(points, lo, hi) ==
  IF lo > hi THEN [sum |-> N(0), cnt |-> 0]
  ELSE LET rest == SumEle(points, lo + 1, hi)
       IN IF points[lo].ele.k # "undef"
          THEN [sum |-> fAdd(rest.sum, points[lo].ele), cnt |-> rest.cnt + 1]
          ELSE rest

\* function smoothElev(points, window = 7)
smoothElev(points) ==
  [i \in 1..Len(points) |->
     IF points[i].ele.k = "undef" THEN points[i]
     ELSE LET w == SumEle(points, Max2(1, i - ElevWindow), Min2(Len(points), i + ElevWindow))
          IN [points[i] EXCEPT !.ele =
                IF w.cnt = 0 THEN points[i].ele
                ELSE IF isFinite(w.sum) THEN N(w.sum.v \div w.cnt) ELSE NaN]]

\* the summed haversine distance of the consecutive points from index lo to
\* index hi, added up by halves
RECURSIVE PathSum(_, _, _)
PathSum(points, lo, hi) ==
  IF hi <= lo THEN N(0)
  ELSE IF hi = lo + 1 THEN haversine(points[lo], points[hi])
  ELSE LET mid == (lo + hi) \div 2
       IN fAdd(PathSum(points, lo, mid), PathSum(points, mid, hi))

\* the summed haversine distance of the consecutive points up to index n
PathLength(points, n) == PathSum(points, 1, n)

\* removeSpikes: fewer points than this are returned unchanged
SpikeMinPoints == 10
\* removeSpikes: average speed (m/s) above which the track is taken for cycling
CyclingAvgMS == 4
\* removeSpikes: speed caps (m/s)
CapCycling == 20
CapRunning == 9

\* const cap = maxSpeedHint ?? (avgMS>4 ? 20 : 9), avgMS = totalTime>0 ? totalDist/totalTime : 0
SpeedCap(points) ==
  LET totalDist == PathLength(points, Len(points))
      totalMs == Last(points).t - points[1].t
  IN IF totalMs > 0 /\ isFinite(totalDist) /\ totalDist.v * 1000 > CyclingAvgMS * totalMs
     THEN CapCycling ELSE CapRunning

\* v <= cap for v = dt>0 ? d/dt : 0, dt = (cur.t-prev.t)/1000
WithinCap(prev, cur, cap) ==
  LET ms == cur.t - prev.t
      d == haversine(prev, cur)
  IN IF ms > 0 THEN isFinite(d) /\ d.v * 1000 <= cap * ms ELSE TRUE

\* The iterations of the loop of removeSpikes for the points lo..hi, run on
\* the kept points out: the first half of the range, then the second on what
\* the first half kept (the loop only ever appends, so kept is never shorter).
RECURSIVE SpikeIterations(_, _, _, _, _)
SpikeIterations(points, cap, lo, hi, out) ==
  IF lo > hi THEN out
  ELSE IF lo = hi
       THEN IF WithinCap(Last(out), points[lo], cap) THEN Append(out, points[lo]) ELSE out
       ELSE LET mid == (lo + hi) \div 2
                kept == SpikeIterations(points, cap, lo, mid, out)
            IN IF Len(kept) >= Len(out)
               THEN SpikeIterations(points, cap, mid + 1, hi, kept)
               ELSE kept

\* The loop of removeSpikes with the speed taken from the previous input point.
RECURSIVE SpikeLoopRawPrev(_, _, _, _)
SpikeLoopRawPrev(points, cap, i, out) ==
  IF i > Len(points) THEN out
  ELSE SpikeLoopRawPrev(points, cap, i + 1,
                        IF WithinCap(points[i - 1], points[i], cap)
                        THEN Append(out, points[i]) ELSE out)

\* const out=[points[0]]; for (i=1;i<n;i++){ prev=out.at(-1); cur=points[i]; if (v<=cap) out.push(cur) }
SpikeLoop(points, cap, i, out) == SpikeIterations(points, cap, i, Len(points), out)

\* function removeSpikes(points, maxSpeedHint?) with no hint
removeSpikes(points) ==
  IF Len(points) < SpikeMinPoints THEN points
  ELSE SpikeLoop(points, SpeedCap(points), 2, <<points[1]>>)

\* for (i=1;i<n;i++){ dist+=haversine(points[i-1],points[i]); if (dist>=meters){ startIdx=i; break; } }
\* (0-based result; i is the 0-based loop index)
RECURSIVE TrimStart(_, _, _, _)
TrimStart(points, meters, i, dist) ==
  IF i >= Len(points) THEN 0
  ELSE LET d2 == fAdd(dist, haversine(points[i], points[i + 1]))
       IN IF isFinite(d2) /\ d2.v >= meters THEN i
          ELSE TrimStart(points, meters, i + 1, d2)

\* for (i=n-1;i>0;i--){ dist+=haversine(points[i],points[i-1]); if (dist>=meters){ endIdx=i; break; } }
RECURSIVE TrimEnd(_, _, _, _)
TrimEnd(points, meters, i, dist) ==
  IF i <= 0 THEN Len(points) - 1
  ELSE LET d2 == fAdd(dist, haversine(points[i + 1], points[i]))
       IN IF isFinite(d2) /\ d2.v >= meters THEN i
          ELSE TrimEnd(points, meters, i - 1, d2)

\* function trimPrivacy(points, meters); slice(startIdx, endIdx+1)
trimPrivacy(points, meters) ==
  IF Len(points) < 2 \/ meters <= 0 THEN points
  ELSE LET startIdx == TrimStart(points, meters, 1, N(0))
           endIdx == TrimEnd(points, meters, Len(points) - 1, N(0))
       IN SubSeq(points, startIdx + 1, endIdx + 1)

\* ---------------------------------------------------------------- resample
\* The frame count with the product truncated instead of rounded.
FrameCountTruncated(fps, ticks) == Max2(2, (fps * ticks) \div TicksPerSec)

\* frames = Math.max(2, Math.round(fps*durationSec)), durationSec = ticks/TicksPerSec
FrameCount(fps, ticks) == Max2(2, Round(fps * ticks, TicksPerSec))

\* a1 + a*(a2 - a1) with a = an/ad in [0,1]; NaN when an endpoint is NaN
\* (0 * NaN is NaN), rounded to the grid otherwise.
Lerp(v1, v2, an, ad) ==
  IF isFinite(v1) /\ isFinite(v2)
  THEN N(v1.v + ((an * (v2.v - v1.v)) \div ad))
  ELSE NaN

\* The cursor that also steps onto a point whose timestamp equals t.
RECURSIVE AdvanceCursorInclusive(_, _, _, _)
AdvanceCursorInclusive(points, j, tn, td) ==
  IF j < Len(points) /\ points[j + 1].t * td <= tn
  THEN AdvanceCursorInclusive(points, j + 1, tn, td)
  ELSE j

\* while (j<points.length-1 && points[j+1].t < t) j++;      with t = tn/td
RECURSIVE AdvanceCursor(_, _, _, _)
AdvanceCursor(points, j, tn, td) ==
  IF j < Len(points) /\ points[j + 1].t * td < tn
  THEN AdvanceCursor(points, j + 1, tn, td)
  ELSE j

NoPace == [k |-> "undef", n |-> 0, d |-> 1]

\* pace = mps>0 ? (1000/mps)/60 : undefined, mps = d/(dt/1000),
\* dt = totalTime/(frames-1): the pace is dt/(60*d) minutes per kilometre.
PaceOf(dist, totalTime, td) ==
  IF isFinite(dist) /\ dist.v > 0
  THEN [k |-> "num", n |-> totalTime, d |-> 60 * dist.v * td]
  ELSE NoPace

\* One iteration of the loop of resample for output index i (0-based), with
\* the cursor j and the running distance cum of the previous iterations.
ResampleSample(points, frames, i, j, cum, prev) ==
  LET start == points[1].t
      totalTime == Max2(1, Last(points).t - start)
      td == frames - 1
      tn == start * td + i * totalTime
      a1 == points[j]
      a2 == IF j + 1 <= Len(points) THEN points[j + 1] ELSE points[j]
      span == Max2(1, a2.t - a1.t)
      ad == span * td
      an == Min2(ad, Max2(0, tn - a1.t * td))
      lat == Lerp(a1.lat, a2.lat, an, ad)
      lon == Lerp(a1.lon, a2.lon, an, ad)
      ele == IF a1.ele.k # "undef" /\ a2.ele.k # "undef"
             THEN Lerp(a1.ele, a2.ele, an, ad) ELSE Undefined
      dist == haversine([lat |-> prev.y, lon |-> prev.x], [lat |-> lat, lon |-> lon])
  IN [x |-> lon, y |-> lat, ele |-> ele, t |-> Frac(tn, td),
      d |-> IF i > 0 THEN fAdd(cum, dist) ELSE cum,
      pace |-> IF i > 0 THEN PaceOf(dist, totalTime, td) ELSE NoPace]

RECURSIVE ResampleLoop(_, _, _, _, _)
ResampleLoop(points, frames, i, j, out) ==
  IF i >= frames THEN out
  ELSE LET start == points[1].t
           totalTime == Max2(1, Last(points).t - start)
           td == frames - 1
           j2 == AdvanceCursor(points, j, start * td + i * totalTime, td)
           cum == IF i > 0 THEN out[i].d ELSE N(0)
           prev == IF i > 0 THEN out[i] ELSE [x |-> N(0), y |-> N(0)]
           smp == ResampleSample(points, frames, i, j2, cum, prev)
       IN ResampleLoop(points, frames, i + 1, j2, Append(out, smp))

\* The value of the cursor j (counted from 1) after the while loop of the
\* iteration for output index i (0-based): let j=0 before the loop, and each
\* iteration advances the cursor of the previous one.
RECURSIVE CursorAt(_, _, _)
CursorAt(points, frames, i) ==
  LET start == points[1].t
      totalTime == Max2(1, Last(points).t - start)
      td == frames - 1
  IN AdvanceCursor(points, IF i = 0 THEN 1 ELSE CursorAt(points, frames, i - 1),
                   start * td + i * totalTime, td)

\* function resample(points, fps=30, durationSec=20): ProjPt[]
resample(points, fps, durTicks) ==
  IF Len(points) = 0 THEN <<>>
  ELSE ResampleLoop(points, FrameCount(fps, durTicks), 0, 1, <<>>)

\* ----------------------------------------------------------- makeProjector
ZoomUnit == 20       \* the zoom slider moves in steps of 0.05 = 1/20
EpsDen == 1000       \* the floor 1e-9 of routeW and routeH is 1/EpsDen of a grid unit

\* Math.min(...xs) and Math.max(...xs) of a non-empty set of finite numbers
MinOf(S) == CHOOSE m \in S : \A v \in S : m <= v
MaxOf(S) == CHOOSE m \in S : \A v \in S : m >= v

\* The choice of base with Math.max in the place of Math.min.
WidthBoundLoose(freeW, rw, freeH, rh) == freeW * rh >= freeH * rw

\* base = Math.min(freeW/routeW, freeH/routeH) is freeW/routeW
WidthBound(freeW, rw, freeH, rh) == freeW * rh <= freeH * rw

\* function makeProjector(samples, width, height, pads, pan, zoom) for a
\* non-empty sample sequence; routeW = rw/EpsDen, routeH = rh/EpsDen and
\* scale = free*EpsDen*zoom/(rb*ZoomUnit).
makeProjector(smp, width, height, pads, pn, zm) ==
  LET xs == {smp[i].x.v : i \in 1..Len(smp)}
      ys == {smp[i].y.v : i \in 1..Len(smp)}
      minX == MinOf(xs)
      maxX == MaxOf(xs)
      minY == MinOf(ys)
      maxY == MaxOf(ys)
      rw == Max2(1, (maxX - minX) * EpsDen)
      rh == Max2(1, (maxY - minY) * EpsDen)
      freeW == Max2(1, width - pads.left - pads.right)
      freeH == Max2(1, height - pads.top - pads.bottom)
      byW == WidthBound(freeW, rw, freeH, rh)
  IN [minX |-> minX, maxY |-> maxY, rw |-> rw, rh |-> rh, freeW |-> freeW, freeH |-> freeH,
      free |-> IF byW THEN freeW ELSE freeH,
      rb |-> IF byW THEN rw ELSE rh,
      zoom |-> IF zm = 0 THEN ZoomUnit ELSE zm,
      left |-> pads.left + pn.x, top |-> pads.top + pn.y]

\* toXY(p): x = offsetX + (p.x - minX)*scale, y = offsetY + (maxY - p.y)*scale,
\* offsetX = pads.left + (freeW - routeW*scale)/2 + pan.x, as fractions
ToXY(pr, q) ==
  LET den == 2 * pr.rb * ZoomUnit
  IN [x |-> Frac(pr.left * den + pr.freeW * pr.rb * ZoomUnit - pr.rw * pr.free * pr.zoom
                   + 2 * (q.x.v - pr.minX) * EpsDen * pr.free * pr.zoom, den),
      y |-> Frac(pr.top * den + pr.freeH * pr.rb * ZoomUnit - pr.rh * pr.free * pr.zoom
                   + 2 * (pr.maxY - q.y.v) * EpsDen * pr.free * pr.zoom, den)]

\* --------------------------------------------------------------- drawFrame
\* Math.min(1, f)
MinOne(f) == IF f.n >= f.d THEN Frac(1, 1) ELSE f

ZeroPan == [x |-> 0, y |-> 0]

\* The canvas is known by what was drawn last: nothing, the placeholder, or a
\* frame with its progress fraction and the index of the comet head.
Blank == [k |-> "blank", p |-> Frac(0, 1), upto |-> 0]
Placeholder == [k |-> "placeholder", p |-> Frac(0, 1), upto |-> 0]

\* const upto = Math.max(1, Math.floor(progress01*(samples.length-1)))
Upto(smp, p) == Max2(1, (p.n * (Len(smp) - 1)) \div p.d)

\* drawFrame without the early return for an empty sample sequence.
drawFrameUnguarded(smp, p) == [k |-> "frame", p |-> p, upto |-> Upto(smp, p)]

\* drawFrame(progress01): the placeholder when there are no samples, else the
\* route with the comet head at index upto.
drawFrame(smp, p) ==
  IF Len(smp) = 0 THEN Placeholder
  ELSE [k |-> "frame", p |-> p, upto |-> Upto(smp, p)]

\* ----------------------------------------------------------- preview loop
Null == Undefined

\* The id requestAnimationFrame returns: one that no pending callback has and
\* that animRef does not hold (ids are never reused).
FreshId(pending, ref) ==
  CHOOSE id \in 1..(Cardinality(pending) + 2) :
    /\ \A cb \in pending : cb.id # id
    /\ ref # N(id)
    /\ \A lower \in 1..(id - 1) : (\E cb \in pending : cb.id = lower) \/ ref = N(lower)

\* A pending callback is the function step of one render: it reads the
\* durationSec, samples, pan and zoom of that render.
Callback(id, dur, smp, pn, zm) ==
  [id |-> id, durationSec |-> dur, samples |-> smp, pan |-> pn, zoom |-> zm]

\* cancelAnimationFrame(ref)
CancelFrame(pending, ref) == {cb \in pending : N(cb.id) # ref}

Refs == [animRef |-> animRef, startRef |-> startRef, pausedRef |-> pausedRef,
         raf |-> raf, canvas |-> canvas]

\* The cleanup the preview effect returned when it last ran with samples.
EffectCleanup(r) ==
  [r EXCEPT !.raf = IF r.animRef # Null THEN CancelFrame(@, r.animRef) ELSE @,
            !.animRef = Null, !.startRef = Null]

\* The preview effect, re-run because one of its dependencies changed: the
\* cleanup of the previous run (there is one when that run had samples), then
\* the body with the new state.
PreviewEffect(oldSmp, smp, dur, pn, zm) ==
  LET r == IF Len(oldSmp) > 0 THEN EffectCleanup(Refs) ELSE Refs
  IN IF Len(smp) = 0
     THEN [r EXCEPT !.canvas = Blank]
     ELSE LET id == FreshId(r.raf, r.animRef)
          IN [r EXCEPT !.raf = @ \cup {Callback(id, dur, smp, pn, zm)},
                       !.animRef = N(id)]

CommitRefs(r) ==
  /\ animRef' = r.animRef
  /\ startRef' = r.startRef
  /\ pausedRef' = r.pausedRef
  /\ raf' = r.raf
  /\ canvas' = r.canvas

\* The body of a tick that schedules the next tick also at p = 1.
StepNeverStops(cb, ts) ==
  LET r0 == [Refs EXCEPT !.raf = @ \ {cb}]
      s0 == IF r0.startRef = Null THEN N(ts) ELSE r0.startRef
      p == MinOne(Frac(ts - s0.v, cb.durationSec))
      r1 == [r0 EXCEPT !.startRef = s0,
                       !.canvas = drawFrame(cb.samples, p)]
  IN IF r1.pausedRef THEN r1
     ELSE LET id == FreshId(r1.raf, r1.animRef)
          IN [r1 EXCEPT !.raf = @ \cup {[cb EXCEPT !.id = id]}, !.animRef = N(id)]

\* const step = (ts) => { ... }: the body of a tick at timestamp ts
Step(cb, ts) ==
  LET r0 == [Refs EXCEPT !.raf = @ \ {cb}]
      s0 == IF r0.startRef = Null THEN N(ts) ELSE r0.startRef
      p == MinOne(Frac(ts - s0.v, cb.durationSec))
      r1 == [r0 EXCEPT !.startRef = s0,
                       !.canvas = drawFrame(cb.samples, p)]
  IN IF r1.pausedRef THEN r1
     ELSE IF FracLt(p, Frac(1, 1))
          THEN LET id == FreshId(r1.raf, r1.animRef)
               IN [r1 EXCEPT !.raf = @ \cup {[cb EXCEPT !.id = id]}, !.animRef = N(id)]
          ELSE [r1 EXCEPT !.canvas = drawFrame(cb.samples, Frac(1, 1)),
                          !.pausedRef = TRUE, !.animRef = Null, !.startRef = Null]

MaxClock == 4        \* the clock stops here

\* The browser runs a pending animation-frame callback.
Tick ==
  /\ \E cb \in raf, ts \in (clock + 1)..MaxClock :
       /\ clock' = ts
       /\ CommitRefs(Step(cb, ts))
  /\ UNCHANGED <<trackVars, pointerVars, exportVars, resampleVars>>

\* function onCanvasClick(): the click event that ends a pointer gesture
CanvasClick ==
  /\ pointer = "released"
  /\ pointer' = "idle"
  /\ IF clickGuard.moved THEN UNCHANGED <<previewVars, canvas>>
     ELSE IF ~pausedRef
          THEN CommitRefs([Refs EXCEPT !.pausedRef = TRUE,
                                       !.raf = IF animRef # Null THEN CancelFrame(@, animRef) ELSE @,
                                       !.animRef = Null])
               /\ UNCHANGED clock
          ELSE IF animRef = Null
               THEN LET id == FreshId(raf, animRef)
                    IN CommitRefs([Refs EXCEPT
                         !.pausedRef = FALSE, !.startRef = Null,
                         !.raf = @ \cup {Callback(id, durationSec, samples, pan, zoom)},
                         !.animRef = N(id)])
                       /\ UNCHANGED clock
               ELSE CommitRefs([Refs EXCEPT !.pausedRef = FALSE]) /\ UNCHANGED clock
  /\ UNCHANGED <<trackVars, drag, legendDrag, clickGuard, dragged, exportVars, resampleVars>>

\* ----------------------------------------------------------------- pointer
CanvasW == 1080      \* W of the default aspect
CanvasRatio == 3     \* W/r.width: canvas pixels per CSS pixel of the preview
LegendMargin == 10   \* setLegendXY keeps the legend this far from the edges
MoveSlack == 2       \* a drag of more than this many pixels is not a click
MaxPan == 3          \* largest pan offset

\* clientX - r.left of the pointer events
PtrXs == {0, 1}

\* Math.round(W*0.14), Math.round(W*0.08)
LegendW == Round(CanvasW * 14, 100)
LegendDefX == CanvasW - Round(CanvasW * 8, 100) - LegendW

\* legendRect().x
LegendX == IF legendXY = Null THEN LegendDefX ELSE legendXY.v

\* pointerInLegend(e).hit, on the row of the legend
InLegend(cx) == cx * CanvasRatio >= LegendX /\ cx * CanvasRatio <= LegendX + LegendW

\* drag.current and legendDrag.current when no button is down: the other
\* fields are written by the next onPointerDown before they are read.
NoDrag == [down |-> FALSE, sx |-> 0, ox |-> 0, oy |-> 0]
NoLegendDrag == [down |-> FALSE, offx |-> 0]

\* function onPointerDown(e)
PointerDown(cx) ==
  /\ pointer = "idle"
  /\ pointer' = "down"
  /\ clickGuard' = [moved |-> FALSE]
  /\ dragged' = FALSE
  /\ IF showLegend /\ InLegend(cx)
     THEN /\ legendDrag' = [down |-> TRUE, offx |-> LegendX - cx * CanvasRatio]
          /\ UNCHANGED drag
     ELSE /\ drag' = [down |-> TRUE, sx |-> cx, ox |-> pan.x, oy |-> pan.y]
          /\ UNCHANGED legendDrag
  /\ UNCHANGED <<trackVars, previewVars, canvas, exportVars, resampleVars>>

\* function onPointerMove(e)
PointerMove(cx) ==
  /\ pointer = "down"
  /\ IF legendDrag.down
     THEN /\ legendXY' = N(Max2(LegendMargin,
                            Min2(CanvasW - LegendMargin, cx * CanvasRatio + legendDrag.offx)))
          /\ clickGuard' = [moved |-> TRUE]
          /\ dragged' = TRUE
          /\ UNCHANGED <<pan, previewVars, canvas>>
     ELSE IF drag.down
          THEN LET nx == drag.ox + (cx - drag.sx) * CanvasRatio
                   ny == drag.oy
               IN /\ Abs(nx) <= MaxPan
                  /\ clickGuard' = IF Abs(nx - drag.ox) + Abs(ny - drag.oy) > MoveSlack
                                   THEN [moved |-> TRUE] ELSE clickGuard
                  /\ dragged' = (dragged \/ clickGuard'.moved)
                  /\ pan' = [x |-> nx, y |-> ny]
                  /\ CommitRefs(PreviewEffect(samples, samples, durationSec, pan', zoom))
                  /\ UNCHANGED <<legendXY, clock>>
          ELSE UNCHANGED <<legendXY, clickGuard, dragged, pan, previewVars, canvas>>
  /\ UNCHANGED <<durationSec, privacyM, samples, zoom, showLegend, loads, weatherVars,
                 drag, legendDrag, pointer, exportVars, resampleVars>>

\* function onPointerUp(): onPointerUp (the click event follows) or
\* onPointerLeave (no click event follows)
PointerUp(leave) ==
  /\ pointer = "down"
  /\ pointer' = IF leave THEN "idle" ELSE "released"
  /\ drag' = NoDrag
  /\ legendDrag' = NoLegendDrag
  /\ clickGuard' = [moved |-> FALSE]
  /\ dragged' = dragged
  /\ UNCHANGED <<trackVars, previewVars, canvas, exportVars, resampleVars>>

\* ---------------------------------------------------------------- controls
\* The durations the Duration select offers.
DurationChoices == {MaxDurTicks - 1, MaxDurTicks}

\* onChange of the Duration select: setDurationSec(parseInt(e.target.value))
SetDuration(d) ==
  /\ d \in DurationChoices
  /\ d # durationSec
  /\ durationSec' = d
  /\ CommitRefs(PreviewEffect(samples, samples, d, pan, zoom))
  /\ UNCHANGED <<privacyM, samples, pan, zoom, showLegend, legendXY, loads, weatherVars, clock,
                 pointerVars, exportVars, resampleVars>>

\* The distances the Privacy select offers.
PrivacyChoices == {0, 120, 200, 300}

\* onChange of the Privacy select: setPrivacyM(parseInt(e.target.value))
SetPrivacy(m) ==
  /\ m \in PrivacyChoices
  /\ m # privacyM
  /\ privacyM' = m
  /\ UNCHANGED <<durationSec, samples, pan, zoom, showLegend, legendXY, loads, weatherVars,
                 previewVars, canvas, pointerVars, exportVars, resampleVars>>

\* The values the model gives the zoom slider (min 0.5, max 2).
ZoomChoices == {ZoomUnit, 2 * ZoomUnit}

\* onChange of the Zoom slider: setZoom(parseFloat(e.target.value))
SetZoom(z) ==
  /\ z \in ZoomChoices
  /\ z # zoom
  /\ zoom' = z
  /\ CommitRefs(PreviewEffect(samples, samples, durationSec, pan, z))
  /\ UNCHANGED <<durationSec, privacyM, samples, pan, showLegend, legendXY, loads, weatherVars,
                 clock, pointerVars, exportVars, resampleVars>>

\* onClick of Reset position: setPan({x:0,y:0}); setZoom(1)
ResetPosition ==
  /\ pan' = ZeroPan
  /\ zoom' = ZoomUnit
  /\ CommitRefs(PreviewEffect(samples, samples, durationSec, ZeroPan, ZoomUnit))
  /\ UNCHANGED <<durationSec, privacyM, samples, showLegend, legendXY, loads, weatherVars,
                 clock, pointerVars, exportVars, resampleVars>>

\* onChange of the legend option: setShowLegend(e.target.checked)
ToggleLegend ==
  /\ showLegend' = ~showLegend
  /\ CommitRefs(PreviewEffect(samples, samples, durationSec, pan, zoom))
  /\ UNCHANGED <<durationSec, privacyM, samples, pan, zoom, legendXY, loads, weatherVars,
                 clock, pointerVars, exportVars, resampleVars>>

\* --------------------------------------------------------------- file load
MaxLoads == 1        \* invocations of onFile awaiting parseGpx at one time

Node(lat, lon, ele, time) == [lat |-> lat, lon |-> lon, ele |-> ele, time |-> time]

\* three timed points on a meridian
FileTimed ==
  [trkpt |-> <<Node(N(0), N(0), N(1), N(0)), Node(N(Grid), N(0), N(1), N(1000)),
               Node(N(2 * Grid), N(0), Undefined, N(2000))>>,
   rtept |-> <<>>]

\* a single route point
FileOnePoint == [trkpt |-> <<>>, rtept |-> <<Node(N(0), N(0), Undefined, Undefined)>>]

\* three timed points, the last with a malformed latitude
FileMalformed ==
  [trkpt |-> <<Node(N(0), N(0), N(1), N(0)), Node(N(Grid), N(0), N(1), N(1000)),
               Node(NaN, N(0), N(1), N(2000))>>,
   rtept |-> <<>>]

\* two points without <time>
FileUntimed ==
  [trkpt |-> <<Node(N(0), N(0), Undefined, Undefined),
               Node(N(0), N(Grid), Undefined, Undefined)>>,
   rtept |-> <<>>]

Files == {FileTimed, FileOnePoint, FileMalformed}

\* The values Date.now() takes.
WallClocks == {0, 500}

\* onFile up to the point count check: parseGpx, smoothElev, removeSpikes and,
\* if (privacyM>0 && pts.length>50), trimPrivacy
PrivacyMinPoints == 50

\* The passes of onFile with the privacy trim applied to short tracks too.
CleanedPointsAlwaysTrim(file, nowMs, priv) ==
  LET spiked == removeSpikes(smoothElev(parseGpx(file, nowMs)))
  IN IF priv > 0 THEN trimPrivacy(spiked, priv) ELSE spiked

CleanedPoints(file, nowMs, priv) ==
  LET spiked == removeSpikes(smoothElev(parseGpx(file, nowMs)))
  IN IF priv > 0 /\ Len(spiked) > PrivacyMinPoints THEN trimPrivacy(spiked, priv)
     ELSE spiked

FiniteSample(q) == isFinite(q.x) /\ isFinite(q.y)

\* resample(pts, 30, durationSec).filter(p=>isFinite(p.x)&&isFinite(p.y))
SamplesOf(pts, dur) == SelectSeq(resample(pts, FPS, dur), FiniteSample)

\* onFile(f) up to its first await: setFileName, setStatus("Parsing GPX")
OnFilePick(f) ==
  /\ Cardinality(loads) < MaxLoads
  /\ loads' = loads \cup {[file |-> f, durationSec |-> durationSec, privacyM |-> privacyM,
                            showWeather |-> showWeather]}
  /\ status' = "Parsing GPX"
  /\ UNCHANGED <<durationSec, privacyM, samples, pan, zoom, showLegend, legendXY, weatherVars,
                 previewVars, canvas, pointerVars, resampleVars,
                 phase, progress, ffmpeg, loadingFfmpeg, abortRef, enc, exports>>

\* The answer that no lookup has given.
NoWeather == [k |-> "null", lat |-> N(0), lon |-> N(0), startMs |-> 0, endMs |-> 0]

\* fetchHistoricalWeather(mid.lat, mid.lon, pts[0].t, pts.at(-1).t) of onFile
LookupOfPoints(pts) ==
  LET mid == pts[(Len(pts) \div 2) + 1]
  IN [k |-> "weather", lat |-> mid.lat, lon |-> mid.lon,
      startMs |-> pts[1].t, endMs |-> Last(pts).t]

\* fetchHistoricalWeather(mid.y, mid.x, samples[0].t, samples.at(-1).t) of the effect
LookupOfSamples(smp) ==
  LET mid == smp[(Len(smp) \div 2) + 1]
  IN [k |-> "weather", lat |-> mid.y, lon |-> mid.x,
      startMs |-> smp[1].t.n \div smp[1].t.d, endMs |-> Last(smp).t.n \div Last(smp).t.d]

\* The weather effect, run because showWeather or samples changed.
WeatherEffect(show, smp) ==
  IF show /\ Len(smp) > 0 THEN {LookupOfSamples(smp)} ELSE {}

\* onFile(f) after parseGpx has resolved, with the durationSec, privacyM and
\* showWeather of the render that the handler belongs to
OnFileParsed(nowMs) ==
  /\ nowMs \in WallClocks
  /\ \E l \in loads :
     /\ loads' = loads \ {l}
     /\ LET pts == CleanedPoints(l.file, nowMs, l.privacyM)
            smp == IF Len(pts) < 2 THEN <<>> ELSE SamplesOf(pts, l.durationSec)
        IN IF Len(pts) < 2
           THEN /\ status' = "This GPX has too few usable points."
                /\ samples' = <<>>
                /\ lookups' = lookups
                /\ CommitRefs(PreviewEffect(samples, <<>>, durationSec, pan, zoom))
                /\ UNCHANGED <<pan, zoom>>
           ELSE IF Len(smp) < 2
           THEN /\ status' = "No drawable points in this GPX."
                /\ samples' = <<>>
                /\ lookups' = lookups
                /\ CommitRefs(PreviewEffect(samples, <<>>, durationSec, pan, zoom))
                /\ UNCHANGED <<pan, zoom>>
           ELSE /\ status' = "Loaded"
                /\ samples' = smp
                /\ pan' = ZeroPan
                /\ zoom' = ZoomUnit
                /\ CommitRefs(PreviewEffect(samples, smp, durationSec, ZeroPan, ZoomUnit))
                /\ lookups' = lookups \cup WeatherEffect(showWeather, smp)
                                \cup (IF l.showWeather THEN {LookupOfPoints(pts)} ELSE {})
  /\ UNCHANGED <<durationSec, privacyM, showLegend, legendXY, clock, showWeather, weather,
                 pointerVars, resampleVars,
                 phase, progress, ffmpeg, loadingFfmpeg, abortRef, enc, exports>>

\* onChange of the weather option: setShowWeather(e.target.checked); the
\* preview effect and the weather effect depend on showWeather.
ToggleWeather ==
  /\ showWeather' = ~showWeather
  /\ lookups' = lookups \cup WeatherEffect(~showWeather, samples)
  /\ CommitRefs(PreviewEffect(samples, samples, durationSec, pan, zoom))
  /\ UNCHANGED <<durationSec, privacyM, samples, pan, zoom, showLegend, legendXY, loads,
                 weather, clock, pointerVars, exportVars, resampleVars>>

\* fetchHistoricalWeather has returned an answer: if (wh) setWeather(wh)
LookupDone ==
  /\ \E q \in lookups :
       /\ lookups' = lookups \ {q}
       /\ weather' = q
  /\ UNCHANGED <<durationSec, privacyM, samples, pan, zoom, showLegend, legendXY, loads,
                 showWeather, previewVars, pointerVars, canvas, exportVars, resampleVars>>

\* fetchHistoricalWeather has returned null or has thrown: nothing is set
LookupFail ==
  /\ \E q \in lookups : lookups' = lookups \ {q}
  /\ UNCHANGED <<durationSec, privacyM, samples, pan, zoom, showLegend, legendXY, loads,
                 showWeather, weather, previewVars, pointerVars, canvas, exportVars,
                 resampleVars>>

\* ------------------------------------------------------------------ export
MaxExports == 2      \* invocations of exportMp4 in one behaviour

ExportIds == 1..MaxExports

IdleExport ==
  [pc |-> "idle", i |-> 0, total |-> 0, img |-> Blank, issued |-> <<>>,
   execCalls |-> 0, di |-> 0, outcome |-> "", cancelled |-> FALSE, atCancel |-> 0]

NoEncoder == [state |-> "none", files |-> {}, out |-> FALSE, listeners |-> <<>>]

\* The variables an invocation of exportMp4 writes, with its own record x.
Ctx(e) ==
  [status |-> status, phase |-> phase, progress |-> progress,
   abortRef |-> abortRef, canvas |-> canvas, x |-> exports[e]]

\* catch(e){ setStatus(e?.message==="Canceled" ? "Export canceled." : `Export failed: ...`) }
Catch(c, msg) ==
  IF msg = "Canceled"
  THEN [c EXCEPT !.status = "Export canceled.", !.x.outcome = "canceled"]
  ELSE [c EXCEPT !.status = "Export failed", !.x.outcome = "failed"]

\* finally{ setPhase(""); setProgress(0); abortRef.current=false; }
Finally(c) ==
  [c EXCEPT !.phase = "", !.progress = Frac(0, 1), !.abortRef = FALSE, !.x.pc = "done"]

Throw(c, msg) == Finally(Catch(c, msg))

\* The progress of frame i as i/totalFrames.
FrameProgressOverTotal(i, total) == Frac(i, total)

\* const p=i/(totalFrames-1)
FrameProgress(i, total) == Frac(i, total - 1)

\* The head of the frame loop without the check of abortRef.
LoopTopUnchecked(c) ==
  LET img == drawFrame(samples, FrameProgress(c.x.i, c.x.total))
  IN [c EXCEPT !.canvas = img, !.x.img = img, !.x.pc = "toBlob"]

\* The head of the frame loop for frame x.i: the abort check, drawFrame(p),
\* the copy of the canvas to the offscreen canvas and the call of toBlob.
LoopTop(c) ==
  IF c.abortRef THEN Throw(c, "Canceled")
  ELSE LET img == drawFrame(samples, FrameProgress(c.x.i, c.x.total))
       IN [c EXCEPT !.canvas = img, !.x.img = img, !.x.pc = "toBlob"]

\* After the frame loop: setStatus, setPhase("encoding"), setProgress(0),
\* ff.on("log", ...), ff.exec(args).
StartEncoding(c) ==
  [c EXCEPT !.status = "Encoding: running ffmpeg", !.phase = "encoding",
            !.progress = Frac(0, 1), !.x.pc = "exec", !.x.execCalls = @ + 1]

\* The download and setStatus("Export complete"), then the finally block.
Complete(c) ==
  Finally([c EXCEPT !.status = "Export complete", !.x.outcome = "complete"])

Commit(e, c) ==
  /\ status' = c.status
  /\ phase' = c.phase
  /\ progress' = c.progress
  /\ abortRef' = c.abortRef
  /\ canvas' = c.canvas
  /\ exports' = [exports EXCEPT ![e] = c.x]

InProgress(x) == x.pc \notin {"idle", "done"}

\* onClick={exportMp4} of the Export MP4 button (disabled={!samples.length || loadingFfmpeg})
ExportClick ==
  /\ Len(samples) > 0
  /\ ~loadingFfmpeg
  /\ \E e \in ExportIds :
       /\ exports[e].pc = "idle"
       /\ \A f \in ExportIds : f < e => exports[f].pc # "idle"
       /\ LET c0 == [Ctx(e) EXCEPT !.abortRef = FALSE,
                                   !.status = "Encoding: preparing frames",
                                   !.phase = "frames", !.progress = Frac(0, 1),
                                   !.x.total = FrameCount(FPS, durationSec)]
          IN IF ffmpeg
             THEN Commit(e, LoopTop(c0)) /\ UNCHANGED loadingFfmpeg
             ELSE Commit(e, [c0 EXCEPT !.x.pc = "loading"]) /\ loadingFfmpeg' = TRUE
  /\ UNCHANGED <<ffmpeg, enc, resampleVars, pageVars>>

\* ensureFFmpeg: import and inst.load() have resolved
LoadDone(e) ==
  /\ exports[e].pc = "loading"
  /\ enc' = [enc EXCEPT !.state = "loaded"]
  /\ ffmpeg' = TRUE
  /\ loadingFfmpeg' = FALSE
  /\ Commit(e, LoopTop(Ctx(e)))
  /\ UNCHANGED <<resampleVars, pageVars>>

\* ensureFFmpeg: import or inst.load() has rejected
LoadFail(e) ==
  /\ exports[e].pc = "loading"
  /\ Commit(e, Throw(Ctx(e), "load"))
  /\ UNCHANGED <<ffmpeg, loadingFfmpeg, enc, resampleVars, pageVars>>

\* The toBlob callback of a capture that reads the shared canvas only now.
ToBlobDoneLateCapture(e) ==
  /\ exports[e].pc = "toBlob"
  /\ exports' = [exports EXCEPT ![e].pc = "arrayBuffer", ![e].img = canvas]
  /\ UNCHANGED <<status, phase, progress, abortRef, canvas, ffmpeg, loadingFfmpeg,
                 enc, resampleVars, pageVars>>

\* the toBlob callback
ToBlobDone(e) ==
  /\ exports[e].pc = "toBlob"
  /\ exports' = [exports EXCEPT ![e].pc = "arrayBuffer"]
  /\ UNCHANGED <<status, phase, progress, abortRef, canvas, ffmpeg, loadingFfmpeg,
                 enc, resampleVars, pageVars>>

\* blob.arrayBuffer() has resolved: ff.writeFile(name, u8) is called; an
\* instance without a worker rejects the call at once.
ArrayBufferDone(e) ==
  /\ exports[e].pc = "arrayBuffer"
  /\ LET x == exports[e]
         c == [Ctx(e) EXCEPT !.x.issued = Append(@, [i |-> x.i, img |-> x.img])]
     IN IF enc.state = "loaded"
        THEN Commit(e, [c EXCEPT !.x.pc = "writeFile"])
        ELSE Commit(e, Throw(c, "not loaded"))
  /\ UNCHANGED <<ffmpeg, loadingFfmpeg, enc, resampleVars, pageVars>>

FramesNamed(i) == {f \in enc.files : f.name = i}

\* ff.writeFile has resolved: if (i%2===0) setProgress(i/(totalFrames-1)); i++
WriteDone(e) ==
  /\ exports[e].pc = "writeFile"
  /\ LET x == exports[e]
         c == [Ctx(e) EXCEPT !.progress = IF x.i % 2 = 0 THEN Frac(x.i, x.total - 1) ELSE @,
                             !.x.i = @ + 1]
     IN /\ enc' = [enc EXCEPT
                     !.files = (@ \ FramesNamed(x.i)) \cup {[name |-> x.i, by |-> e]},
                     !.listeners = IF x.i + 1 < x.total THEN @ ELSE Append(@, x.total)]
        /\ IF x.i + 1 < x.total
           THEN Commit(e, LoopTop(c))
           ELSE Commit(e, StartEncoding(c))
  /\ UNCHANGED <<ffmpeg, loadingFfmpeg, resampleVars, pageVars>>

\* The pending call of the encoder rejects (an encoder failure); a failure of
\* a cleanup deleteFile is swallowed by the inner try/catch.
EncoderFail(e) ==
  /\ exports[e].pc \in {"writeFile", "exec", "readFile", "deleteFile"}
  /\ IF exports[e].pc = "deleteFile"
     THEN Commit(e, Complete(Ctx(e)))
     ELSE Commit(e, Throw(Ctx(e), "encoder"))
  /\ UNCHANGED <<ffmpeg, loadingFfmpeg, enc, resampleVars, pageVars>>

\* ff.on("log"): a "frame= n" line; every listener registered so far runs, the
\* last registered one last: setProgress(Math.min(1, n/totalFrames))
ExecLog(e) ==
  /\ exports[e].pc = "exec"
  /\ \E n \in 1..exports[e].total : progress' = MinOne(Frac(n, Last(enc.listeners)))
  /\ UNCHANGED <<status, phase, abortRef, canvas, ffmpeg, loadingFfmpeg, enc, exports,
                 resampleVars, pageVars>>

\* ff.exec has resolved: ff.readFile(output) is called
ExecDone(e) ==
  /\ exports[e].pc = "exec"
  /\ enc' = [enc EXCEPT !.out = TRUE]
  /\ exports' = [exports EXCEPT ![e].pc = "readFile"]
  /\ UNCHANGED <<status, phase, progress, abortRef, canvas, ffmpeg, loadingFfmpeg,
                 resampleVars, pageVars>>

\* ff.readFile has resolved: the cleanup loop calls deleteFile(frame 0)
ReadDone(e) ==
  /\ exports[e].pc = "readFile"
  /\ exports' = [exports EXCEPT ![e].pc = "deleteFile", ![e].di = 0]
  /\ UNCHANGED <<status, phase, progress, abortRef, canvas, ffmpeg, loadingFfmpeg,
                 enc, resampleVars, pageVars>>

\* A cleanup deleteFile has returned: frame di, then out.mp4.  Deleting a file
\* that is not there rejects, which ends the cleanup.
DeleteDone(e) ==
  /\ exports[e].pc = "deleteFile"
  /\ LET x == exports[e]
     IN IF x.di < x.total
        THEN IF FramesNamed(x.di) # {}
             THEN /\ enc' = [enc EXCEPT !.files = @ \ FramesNamed(x.di)]
                  /\ exports' = [exports EXCEPT ![e].di = @ + 1]
                  /\ UNCHANGED <<status, phase, progress, abortRef, canvas>>
             ELSE Commit(e, Complete(Ctx(e))) /\ UNCHANGED enc
        ELSE /\ enc' = [enc EXCEPT !.out = FALSE]
             /\ Commit(e, Complete(Ctx(e)))
  /\ UNCHANGED <<ffmpeg, loadingFfmpeg, resampleVars, pageVars>>

\* The exports whose pending encoder call ff.terminate() rejects.
Rejected(e) ==
  ffmpeg /\ enc.state = "loaded"
  /\ exports[e].pc \in {"writeFile", "exec", "readFile", "deleteFile"}

\* cancelExport without the call of terminate: the flag and the resets only.
CancelClickFlagOnly ==
  /\ abortRef' = TRUE
  /\ exports' =
       [e \in ExportIds |->
          LET x == exports[e]
          IN IF InProgress(x) /\ ~x.cancelled
             THEN [x EXCEPT !.cancelled = TRUE, !.atCancel = Len(x.issued)]
             ELSE x]
  /\ phase' = ""
  /\ progress' = Frac(0, 1)
  /\ status' = "Export canceled."
  /\ UNCHANGED <<enc, canvas, ffmpeg, loadingFfmpeg, resampleVars, pageVars>>

\* cancelExport, run with the continuations it wakes: abortRef.current=true;
\* ffmpeg?.terminate?.() rejects every pending call of the instance and stops
\* its worker, whose file system goes with it; the rejected exports run their
\* catch and finally blocks; then setPhase(""), setProgress(0),
\* setStatus("Export canceled.").
CancelClick ==
  /\ abortRef' = ((\A e \in ExportIds : ~Rejected(e)))
  /\ enc' = IF ffmpeg /\ enc.state = "loaded"
            THEN [enc EXCEPT !.state = "terminated", !.files = {}, !.out = FALSE]
            ELSE enc
  /\ exports' =
       [e \in ExportIds |->
          LET x == exports[e]
              marked == IF InProgress(x) /\ ~x.cancelled
                        THEN [x EXCEPT !.cancelled = TRUE, !.atCancel = Len(x.issued)]
                        ELSE x
          IN IF Rejected(e)
             THEN [marked EXCEPT !.pc = "done",
                                 !.outcome = IF x.pc = "deleteFile" THEN "complete" ELSE "failed"]
             ELSE marked]
  /\ phase' = ""
  /\ progress' = Frac(0, 1)
  /\ status' = "Export canceled."
  /\ UNCHANGED <<canvas, ffmpeg, loadingFfmpeg, resampleVars, pageVars>>

\* ---------------------------------------------------------- specifications
\* resample is not under test
NoCall ==
  /\ rIn = [points |-> <<>>, fps |-> FPS, durTicks |-> 1]
  /\ rOut = <<>>
  /\ rDone = FALSE

\* The Page component after its first render and effects, before any file.
InitPage ==
  /\ durationSec \in DurationChoices
  /\ privacyM = 120
  /\ samples = <<>>
  /\ pan = ZeroPan
  /\ zoom = ZoomUnit
  /\ showLegend = FALSE
  /\ legendXY = Null
  /\ loads = {}
  /\ showWeather = FALSE
  /\ weather = NoWeather
  /\ lookups = {}
  /\ animRef = Null
  /\ startRef = Null
  /\ pausedRef = FALSE
  /\ raf = {}
  /\ clock = 0
  /\ drag = NoDrag
  /\ legendDrag = NoLegendDrag
  /\ clickGuard = [moved |-> FALSE]
  /\ dragged = FALSE
  /\ pointer = "idle"
  /\ canvas = Blank
  /\ status = ""
  /\ phase = ""
  /\ progress = Frac(0, 1)
  /\ ffmpeg = FALSE
  /\ loadingFfmpeg = FALSE
  /\ abortRef = FALSE
  /\ enc = NoEncoder
  /\ exports = [e \in ExportIds |-> IdleExport]

Init == InitPage /\ NoCall

\* The page from its construction: file loads, the controls of the track and
\* the animation ticks of the preview.
Next ==
  \/ \E f \in Files : OnFilePick(f)
  \/ \E nowMs \in WallClocks : OnFileParsed(nowMs)
  \/ \E d \in DurationChoices : SetDuration(d)
  \/ \E m \in PrivacyChoices : SetPrivacy(m)
  \/ \E z \in ZoomChoices : SetZoom(z)
  \/ Tick

Spec == Init /\ [][Next]_vars

\* The page after onFile has loaded FileTimed and the zoom slider has been
\* set to z: the samples are set, pan is reset, and the preview effect has
\* scheduled the first tick.
LoadedPageAt(loadDur, z) ==
  LET smp == SamplesOf(CleanedPoints(FileTimed, 0, 120), loadDur)
  IN /\ durationSec \in DurationChoices
     /\ privacyM = 120
     /\ samples = smp
     /\ pan = ZeroPan
     /\ zoom = z
     /\ showLegend = FALSE
     /\ legendXY = Null
     /\ loads = {}
     /\ showWeather = FALSE
     /\ weather = NoWeather
     /\ lookups = {}
     /\ animRef = N(1)
     /\ startRef = Null
     /\ pausedRef = FALSE
     /\ raf = {Callback(1, durationSec, smp, ZeroPan, z)}
     /\ clock = 0
     /\ drag = NoDrag
     /\ legendDrag = NoLegendDrag
     /\ clickGuard = [moved |-> FALSE]
     /\ dragged = FALSE
     /\ pointer = "idle"
     /\ canvas = Blank
     /\ status = "Loaded"
     /\ phase = ""
     /\ progress = Frac(0, 1)
     /\ ffmpeg = FALSE
     /\ loadingFfmpeg = FALSE
     /\ abortRef = FALSE
     /\ enc = NoEncoder
     /\ exports = [e \in ExportIds |-> IdleExport]

\* The page after onFile has loaded FileTimed: the samples are set, pan and
\* zoom are reset, and the preview effect has scheduled the first tick.
LoadedPage(loadDur) == LoadedPageAt(loadDur, ZoomUnit)

\* The preview of a loaded track: ticks, clicks, drags and the controls that
\* the preview effect depends on.
InitPreview == NoCall /\ \E d \in DurationChoices : LoadedPage(d)

NextPreview ==
  \/ \E d \in DurationChoices : SetDuration(d)
  \/ \E z \in ZoomChoices : SetZoom(z)
  \/ ResetPosition
  \/ \E cx \in PtrXs : PointerDown(cx)
  \/ \E cx \in PtrXs : PointerMove(cx)
  \/ \E leave \in BOOLEAN : PointerUp(leave)
  \/ CanvasClick
  \/ Tick

SpecPreview == InitPreview /\ [][NextPreview]_vars

\* The export of a loaded track.
InitExport == NoCall /\ \E d \in DurationChoices : LoadedPage(d)

NextExport ==
  \/ ExportClick
  \/ CancelClick
  \/ \E e \in ExportIds :
       \/ LoadDone(e)
       \/ LoadFail(e)
       \/ ToBlobDone(e)
       \/ ArrayBufferDone(e)
       \/ WriteDone(e)
       \/ EncoderFail(e)
       \/ ExecLog(e)
       \/ ExecDone(e)
       \/ ReadDone(e)
       \/ DeleteDone(e)

SpecExport == InitExport /\ [][NextExport]_vars

\* ------------------------------------------------- resample, run on its own
Coords == {N(Grid * c) : c \in 0..MaxCoord} \cup {NaN}

PtAttrs == [lat : Coords, lon : {N(0), N(Grid)}, ele : {Undefined, N(1)}]

\* The increasing enumeration of a finite set of integers.
RECURSIVE SortedSeq(_)
SortedSeq(S) ==
  IF S = {} THEN <<>>
  ELSE LET m == CHOOSE x \in S : \A y \in S : x <= y
       IN <<m>> \o SortedSeq(S \ {m})

\* Point sequences as parseGpx returns them: at most MaxPts points with
\* strictly increasing timestamps.
PointSeqs ==
  UNION { { [i \in 1..Cardinality(ts) |->
              [lat |-> at[i].lat, lon |-> at[i].lon, ele |-> at[i].ele,
               t |-> SortedSeq(ts)[i]]] :
            at \in [1..Cardinality(ts) -> PtAttrs] } :
          ts \in {S \in SUBSET (0..MaxT) : S # {} /\ Cardinality(S) <= MaxPts} }

ResampleInputs ==
  { [points |-> p, fps |-> f, durTicks |-> k] :
      p \in PointSeqs, f \in {FPS \div 2, FPS},
      k \in 1..(2 * MaxDurTicks) }

InitResample ==
  /\ InitPage
  /\ durationSec = MaxDurTicks
  /\ rIn \in ResampleInputs
  /\ rOut = <<>>
  /\ rDone = FALSE

CallResample ==
  /\ ~rDone
  /\ rOut' = resample(rIn.points, rIn.fps, rIn.durTicks)
  /\ rDone' = TRUE
  /\ UNCHANGED <<rIn, pageVars, canvas, exportVars>>

NextResample == CallResample

SpecResample == InitResample /\ [][NextResample]_vars

\* C1: for every non-empty point sequence and every fps and durationSec,
\* resample returns exactly max(2, round(fps*durationSec)) samples.
C1_ExactFrameCount ==
  rDone =>
    LET f == Round(rIn.fps * rIn.durTicks, TicksPerSec)
    IN Len(rOut) = (IF f < 2 THEN 2 ELSE f)

C1_Witness ==
  /\ rDone
  /\ Len(rIn.points) = 1
  /\ Len(rOut) > 2

\* C2: in every sequence returned by resample the cumulative distance of
\* sample 0 is 0 and the cumulative distance never decreases with the index.
C2_DistanceMonotone ==
  rDone =>
    /\ rOut[1].d = N(0)
    /\ \A i \in 1..(Len(rOut) - 1) : fLeq(rOut[i].d, rOut[i + 1].d)

\* C3: whenever a track is loaded, the sample sequence has the length
\* max(2, round(30*durationSec)) of the current durationSec: a change of the
\* duration on a loaded track leaves a sample sequence of the new length.
C3_SamplesFollowDuration ==
  [][(durationSec' # durationSec /\ Len(samples) > 0) =>
       LET f == Round(FPS * durationSec', TicksPerSec)
       IN Len(samples') = (IF f < 2 THEN 2 ELSE f)]_vars

\* C4: an export that is not canceled writes exactly totalFrames =
\* max(2, round(30*durationSec)) frames, frame i rendered at progress
\* i/(totalFrames-1), in the order 0, 1, ..., and starts the encoder once,
\* after the last frame has been written.
C4_FramesInOrder ==
  \A e \in ExportIds :
    LET x == exports[e]
        f == Round(FPS * durationSec, TicksPerSec)
        n == IF f < 2 THEN 2 ELSE f
    IN /\ x.pc # "idle" => x.total = n
       /\ Len(x.issued) <= n
       /\ \A k \in 1..Len(x.issued) :
            /\ x.issued[k].i = k - 1
            /\ x.issued[k].img.k = "frame"
            /\ FracEq(x.issued[k].img.p, Frac(k - 1, n - 1))
       /\ x.execCalls <= 1
       /\ x.execCalls = 1 => (Len(x.issued) = n /\ x.i = n)
       /\ (x.pc \in {"exec", "readFile", "deleteFile"} \/ x.outcome = "complete")
            => x.execCalls = 1

C4_Witness ==
  \E e \in ExportIds :
    /\ exports[e].outcome = "complete"
    /\ ~exports[e].cancelled
    /\ exports[e].total >= 3
    /\ Len(exports[e].issued) = exports[e].total

\* C5 as stated: once cancelExport has been invoked, the export issues no
\* further ff.writeFile call, wherever in the loop the cancellation arrives.
C5_NoWriteAfterCancel ==
  \A e \in ExportIds :
    exports[e].cancelled => Len(exports[e].issued) = exports[e].atCancel

\* C5 amended: once cancelExport has been invoked, the export issues at most
\* one further ff.writeFile call (for the frame whose abort check had passed),
\* and no frame issued after the cancellation is stored by the encoder.
C5_AtMostOneWriteAfterCancel ==
  \A e \in ExportIds :
    exports[e].cancelled =>
      /\ Len(exports[e].issued) <= exports[e].atCancel + 1
      /\ \A f \in enc.files : f.by = e => f.name < exports[e].atCancel

C5_Witness ==
  \E e \in ExportIds :
    /\ exports[e].cancelled
    /\ exports[e].pc = "done"
    /\ exports[e].atCancel >= 1
    /\ Len(exports[e].issued) = exports[e].atCancel + 1

\* C6: when an export that was canceled while in progress comes to its end,
\* the status is "Export canceled.", neither a failure nor a completion
\* (an export whose encoder failed to load is left aside).
C6_CanceledStatus ==
  [][\A e \in ExportIds :
       (/\ exports[e].pc \notin {"done", "loading"}
        /\ exports'[e].pc = "done"
        /\ exports'[e].cancelled)
         => status' = "Export canceled."]_vars

\* C7: after an export has ended as canceled, no frame file that it wrote
\* is left in the encoder's file system.
C7_CanceledLeavesNoFrames ==
  \A e \in ExportIds :
    (/\ exports[e].pc = "done"
     /\ \/ exports[e].outcome = "canceled"
        \/ exports[e].cancelled /\ status = "Export canceled.")
      => \A f \in enc.files : f.by # e

C7_Witness ==
  \E e \in ExportIds :
    /\ exports[e].pc = "done"
    /\ exports[e].cancelled
    /\ status = "Export canceled."
    /\ exports[e].i >= 1
    /\ \A f \in enc.files : f.by # e

\* C8: the cached encoder instance is never one that cancelExport has
\* terminated, so that an export started after a cancellation can use it.
C8_CachedEncoderUsable ==
  ffmpeg => enc.state = "loaded"

\* C9: while a track is loaded and the preview is neither paused nor
\* finished, an animation tick is pending.
C9_TickPendingWhilePlaying ==
  (Len(samples) > 0 /\ ~pausedRef) => raf # {}

\* C10: a change of pan or zoom while the preview plays leaves the playback
\* position where it is: the start of the playback is not forgotten.
C10_PanZoomKeepsPosition ==
  [][((pan' # pan \/ zoom' # zoom) /\ startRef # Null /\ samples' = samples)
       => startRef' = startRef]_vars

\* ------------------------------------------------- parseGpx, run on its own
MaxNodes == 3        \* most track points of a parsed document

NodeTimes == {N(0), N(1000), NaN, Undefined, EmptyText}

ParseNodes == [lat : {N(0), N(Grid)}, lon : {N(0)}, ele : {Undefined}, time : NodeTimes]

NodeSeqs == UNION {[1..n -> ParseNodes] : n \in 0..MaxNodes}

ParseInputs ==
  { [file |-> f, nowMs |-> w] :
      f \in {[trkpt |-> ns, rtept |-> <<>>] : ns \in NodeSeqs}
            \cup {[trkpt |-> <<>>, rtept |-> ns] : ns \in NodeSeqs},
      w \in WallClocks }

InitParse ==
  /\ InitPage
  /\ durationSec = MaxDurTicks
  /\ rIn \in ParseInputs
  /\ rOut = <<>>
  /\ rDone = FALSE

CallParse ==
  /\ ~rDone
  /\ rOut' = parseGpx(rIn.file, rIn.nowMs)
  /\ rDone' = TRUE
  /\ UNCHANGED <<rIn, pageVars, canvas, exportVars>>

NextParse == CallParse

SpecParse == InitParse /\ [][NextParse]_vars

MaxLine == 6         \* length (m) of the longest straight track
MaxMeters == 3       \* largest trim distance (m)
MaxSpikes == 2       \* most displaced or malformed points of a long track
MaxExtra == 1        \* points of a long track beyond SpikeMinPoints
SpikeJump == 30      \* displacement (m) of a displaced point

\* Straight tracks: points on a meridian at the positions of a set, one second apart.
LineTrack(S) ==
  [i \in 1..Cardinality(S) |->
     [lat |-> N(SortedSeq(S)[i]), lon |-> N(0), ele |-> N(1), t |-> (i - 1) * 1000]]

LineTracks == {LineTrack(S) : S \in (SUBSET (0..MaxLine)) \ {{}}}

\* Long tracks: n points one second apart advancing v metres a second, the
\* points of J displaced by SpikeJump, those of M with a malformed latitude.
SpikeTrack(n, v, J, M) ==
  [i \in 1..n |->
     [lat |-> IF i \in M THEN NaN
              ELSE N((i - 1) * v + (IF i \in J THEN SpikeJump ELSE 0)),
      lon |-> N(0), ele |-> Undefined, t |-> (i - 1) * 1000]]

SpikeTracks ==
  UNION { { SpikeTrack(n, v, JM \ M, M) : v \in {2, 6}, M \in SUBSET JM } :
          <<n, JM>> \in { <<k, S>> \in (SpikeMinPoints..(SpikeMinPoints + MaxExtra))
                                         \X SUBSET (1..(SpikeMinPoints + MaxExtra)) :
                            Cardinality(S) <= MaxSpikes /\ S \subseteq 1..k } }

CleanInputs ==
  { [points |-> p, meters |-> m] : p \in LineTracks \cup SpikeTracks, m \in 0..MaxMeters }

InitClean ==
  /\ InitPage
  /\ durationSec = MaxDurTicks
  /\ rIn \in CleanInputs
  /\ rOut = <<>>
  /\ rDone = FALSE

\* The passes of onFile on their own and in sequence.
CallClean ==
  /\ ~rDone
  /\ rOut' = [spiked |-> removeSpikes(rIn.points),
              trimmed |-> trimPrivacy(rIn.points, rIn.meters),
              cleaned |-> trimPrivacy(removeSpikes(smoothElev(rIn.points)), rIn.meters)]
  /\ rDone' = TRUE
  /\ UNCHANGED <<rIn, pageVars, canvas, exportVars>>

NextClean == CallClean

SpecClean == InitClean /\ [][NextClean]_vars

\* C12: the sequence that smoothElev, removeSpikes and trimPrivacy (with any
\* trim distance) produce from a non-empty parseGpx result is non-empty and
\* strictly increasing in timestamp.
C12_CleanedNonEmptyIncreasing ==
  rDone =>
    /\ Len(rOut.cleaned) > 0
    /\ \A i \in 2..Len(rOut.cleaned) : rOut.cleaned[i - 1].t < rOut.cleaned[i].t

\* C13: for a track of at least 10 points with strictly increasing
\* timestamps removeSpikes returns a subsequence that begins with the first
\* point, in which consecutive points imply a speed of at most the cap, and
\* that has no point faster than the cap relative to the last point kept
\* before it.
C13_SpikesRemoved ==
  (rDone /\ Len(rIn.points) >= SpikeMinPoints) =>
    LET pts == rIn.points
        out == rOut.spiked
        len == PathLength(pts, Len(pts))
        ms == Last(pts).t - pts[1].t
        cap == IF isFinite(len) /\ len.v * 1000 > 4 * ms THEN 20 ELSE 9
        slow(a, b) == LET d == haversine(a, b)
                      IN isFinite(d) /\ d.v * 1000 <= cap * (b.t - a.t)
        kept(i) == \E k \in 1..Len(out) : out[k] = pts[i]
        lastKept(i) == CHOOSE k \in 1..Len(out) :
                         /\ out[k].t < pts[i].t
                         /\ \A l \in 1..Len(out) : out[l].t < pts[i].t => out[l].t <= out[k].t
    IN /\ out[1] = pts[1]
       /\ \A k \in 1..Len(out) : \E i \in 1..Len(pts) : out[k] = pts[i]
       /\ \A k \in 2..Len(out) : out[k - 1].t < out[k].t /\ slow(out[k - 1], out[k])
       /\ \A i \in 2..Len(pts) : ~slow(out[lastKept(i)], pts[i]) => ~kept(i)

C13_Witness ==
  /\ rDone
  /\ Len(rIn.points) >= SpikeMinPoints
  /\ Len(rOut.spiked) < Len(rIn.points)
  /\ Len(rOut.spiked) >= SpikeMinPoints - MaxSpikes
  /\ \E i \in 2..Len(rIn.points) :
       /\ isFinite(rIn.points[i].lat)
       /\ \A k \in 1..Len(rOut.spiked) : rOut.spiked[k] # rIn.points[i]

\* C14: for a straight track of length L and a trim distance m with
\* 0 < m < L/2, trimPrivacy returns a sub-track of length L - 2m, up to a
\* metre of rounding, whatever the spacing of the points.
C14_TrimLength ==
  LET pts == rIn.points
      L == Last(pts).lat.v - pts[1].lat.v
      straight == \A i \in 1..Len(pts) : isFinite(pts[i].lat) /\ (i > 1 => pts[i - 1].lat.v < pts[i].lat.v)
      got == PathLength(rOut.trimmed, Len(rOut.trimmed))
  IN (rDone /\ straight /\ Len(pts) < SpikeMinPoints /\ rIn.meters > 0 /\ 2 * rIn.meters < L) =>
       /\ isFinite(got)
       /\ Abs(got.v - (L - 2 * rIn.meters)) <= 1

\* C15: when a loaded file yields fewer than 2 points after cleaning, or
\* fewer than 2 finite samples after resampling, onFile reports the
\* insufficient data and empties the samples; from then on no animation tick
\* is pending, the canvas shows no frame of a route, and drawFrame draws the
\* placeholder for every progress.
C15_InsufficientData ==
  /\ [][\A l \in loads :
          (/\ l \notin loads'
           /\ \A w \in WallClocks :
                LET pts == CleanedPoints(l.file, w, l.privacyM)
                IN Len(pts) < 2 \/ Len(SamplesOf(pts, l.durationSec)) < 2)
            => /\ status' \in {"This GPX has too few usable points.",
                               "No drawable points in this GPX."}
               /\ samples' = <<>>]_vars
  /\ [](status \in {"This GPX has too few usable points.", "No drawable points in this GPX."}
          => /\ samples = <<>>
             /\ raf = {}
             /\ canvas.k # "frame"
             /\ \A n \in 0..2 : drawFrame(samples, Frac(n, 2)) = Placeholder)

\* a track was playing when a file without drawable points replaced it
C15_Witness ==
  /\ status = "No drawable points in this GPX."
  /\ samples = <<>>
  /\ clock > 0
  /\ canvas = Blank

\* -------------------------------------------- makeProjector, run on its own
MaxXY == 2           \* largest sample coordinate
MaxCanvas == 8       \* largest canvas width and height
MaxPad == 2          \* largest padding

XYs == {[x |-> N(a), y |-> N(b)] : a, b \in 0..MaxXY}

ProjectInputs ==
  { [samples |-> sm, width |-> w, height |-> h,
     pads |-> [left |-> pl, right |-> 1, top |-> pt, bottom |-> 1],
     pan |-> [x |-> px, y |-> 0], zoom |-> z] :
      sm \in UNION {[1..n -> XYs] : n \in 1..MaxPts},
      w \in {MaxCanvas - 2, MaxCanvas}, h \in {MaxCanvas - 2, MaxCanvas},
      pl \in (MaxPad - 1)..MaxPad, pt \in (MaxPad - 1)..MaxPad,
      px \in {0, 1}, z \in {ZoomUnit, 2 * ZoomUnit} }

InitProject ==
  /\ InitPage
  /\ durationSec = MaxDurTicks
  /\ rIn \in ProjectInputs
  /\ rOut = <<>>
  /\ rDone = FALSE

\* toXY of every sample under the projector of the samples
CallProject ==
  /\ ~rDone
  /\ LET pr == makeProjector(rIn.samples, rIn.width, rIn.height, rIn.pads, rIn.pan, rIn.zoom)
     IN rOut' = [i \in 1..Len(rIn.samples) |-> ToXY(pr, rIn.samples[i])]
  /\ rDone' = TRUE
  /\ UNCHANGED <<rIn, pageVars, canvas, exportVars>>

NextProject == CallProject

SpecProject == InitProject /\ [][NextProject]_vars

\* C16 as stated: with zoom = 1 and pan = (0,0) every sample maps strictly
\* inside the padded rectangle: pads.left < x < width - pads.right and
\* pads.top < y < height - pads.bottom.
C16_StrictlyInside ==
  (rDone /\ rIn.zoom = ZoomUnit /\ rIn.pan = ZeroPan) =>
    \A i \in 1..Len(rOut) :
      /\ FracLt(Frac(rIn.pads.left, 1), rOut[i].x)
      /\ FracLt(rOut[i].x, Frac(rIn.width - rIn.pads.right, 1))
      /\ FracLt(Frac(rIn.pads.top, 1), rOut[i].y)
      /\ FracLt(rOut[i].y, Frac(rIn.height - rIn.pads.bottom, 1))

\* C16 amended: with zoom = 1 and pan = (0,0) every sample maps into the
\* closed padded rectangle: pads.left <= x <= width - pads.right and
\* pads.top <= y <= height - pads.bottom; the samples on the bounding box of
\* the route lie on its edge in the direction that bounds the scale.
C16_InsideOrOnEdge ==
  (rDone /\ rIn.zoom = ZoomUnit /\ rIn.pan = ZeroPan) =>
    \A i \in 1..Len(rOut) :
      /\ FracLeq(Frac(rIn.pads.left, 1), rOut[i].x)
      /\ FracLeq(rOut[i].x, Frac(rIn.width - rIn.pads.right, 1))
      /\ FracLeq(Frac(rIn.pads.top, 1), rOut[i].y)
      /\ FracLeq(rOut[i].y, Frac(rIn.height - rIn.pads.bottom, 1))

C16_Witness ==
  /\ rDone /\ rIn.zoom = ZoomUnit /\ rIn.pan = ZeroPan
  /\ \E i, k \in 1..Len(rOut) :
       /\ FracEq(rOut[i].x, Frac(rIn.pads.left, 1))
       /\ FracEq(rOut[k].x, Frac(rIn.width - rIn.pads.right, 1))
       /\ FracLt(Frac(rIn.pads.top, 1), rOut[i].y)
       /\ rOut[i].y # rOut[k].y

\* ----------------------------------------------------------------- weather
\* The files that the weather option is exercised with: a timed track, a
\* track without <time> and a file that does not load.
WeatherFiles == {FileTimed, FileUntimed, FileOnePoint}

InitWeather ==
  /\ InitPage
  /\ durationSec = MaxDurTicks
  /\ NoCall

\* File loads with the weather option and the answers of its lookups.
NextWeather ==
  \/ \E f \in WeatherFiles : OnFilePick(f)
  \/ \E nowMs \in WallClocks : OnFileParsed(nowMs)
  \/ ToggleWeather
  \/ LookupDone
  \/ LookupFail

SpecWeather == InitWeather /\ [][NextWeather]_vars

\* C17: once every lookup of a load (or of a toggle of the weather option) has
\* failed or answered, the samples of a loaded track are set, and a weather
\* value that the overlay displays was obtained for the samples on display:
\* it is never the value of a previously loaded track.
C17_NoStaleWeather ==
  (loads = {} /\ lookups = {} /\ status = "Loaded")
    => /\ Len(samples) >= 2
       /\ (showWeather /\ weather # NoWeather)
            => /\ weather.startMs = LookupOfSamples(samples).startMs
               /\ weather.endMs = LookupOfSamples(samples).endMs

\* ---------------------------------------------------------------- pipeline
\* Two runs of the pipeline of onFile on one file with one set of options,
\* each at its own wall-clock time.
PipelineInputs ==
  { [file |-> f, privacyM |-> m, durTicks |-> k, nowA |-> a, nowB |-> b] :
      f \in {FileTimed, FileUntimed, FileMalformed, FileOnePoint},
      m \in PrivacyChoices, k \in DurationChoices, a \in WallClocks, b \in WallClocks }

\* parseGpx -> smoothElev -> removeSpikes -> trimPrivacy -> resample
Pipeline(file, nowMs, priv, dur) == resample(CleanedPoints(file, nowMs, priv), FPS, dur)

InitPipeline ==
  /\ InitPage
  /\ durationSec = MaxDurTicks
  /\ rIn \in PipelineInputs
  /\ rOut = <<>>
  /\ rDone = FALSE

CallPipeline ==
  /\ ~rDone
  /\ rOut' = [a |-> Pipeline(rIn.file, rIn.nowA, rIn.privacyM, rIn.durTicks),
              b |-> Pipeline(rIn.file, rIn.nowB, rIn.privacyM, rIn.durTicks)]
  /\ rDone' = TRUE
  /\ UNCHANGED <<rIn, pageVars, canvas, exportVars>>

NextPipeline == CallPipeline

SpecPipeline == InitPipeline /\ [][NextPipeline]_vars

\* C18: two runs of the pipeline on the same file with the same options give
\* identical sample sequences, whatever the wall-clock time of each run, for
\* timed and for untimed tracks.
C18_PipelineDeterministic == rDone => rOut.a = rOut.b

\* C19: a frame drawn for the samples on display (n >= 2) at progress p has
\* its marker at, and its progress trace up to, index floor(p * (n - 1)); in
\* particular at index 0 when p = 0.
C19_MarkerAtFloor ==
  (canvas.k = "frame" /\ Len(samples) >= 2)
    => canvas.upto = (canvas.p.n * (Len(samples) - 1)) \div canvas.p.d

\* ------------------------------------------------------ the resample cursor
\* a1 and a2 of the iteration for output index i
CursorA1(i) == rIn.points[CursorAt(rIn.points, Len(rOut), i)]
CursorA2(i) ==
  LET j == CursorAt(rIn.points, Len(rOut), i)
  IN IF j + 1 <= Len(rIn.points) THEN rIn.points[j + 1] ELSE rIn.points[j]

\* C20 as stated: for every output index the pair (a1, a2) of the cursor has
\* a1.t <= t < a2.t for the target time t, also when t is the timestamp of an
\* interior point; the cursor never decreases nor exceeds the last index.
C20_HalfOpenBracket ==
  (rDone /\ Len(rIn.points) >= 2)
    => /\ \A i \in 0..(Len(rOut) - 1) :
            /\ FracLeq(Frac(CursorA1(i).t, 1), rOut[i + 1].t)
            /\ FracLt(rOut[i + 1].t, Frac(CursorA2(i).t, 1))
       /\ \A i \in 0..(Len(rOut) - 1) :
            /\ CursorAt(rIn.points, Len(rOut), i) <= Len(rIn.points)
            /\ i > 0 => CursorAt(rIn.points, Len(rOut), i - 1)
                           <= CursorAt(rIn.points, Len(rOut), i)

\* C20 as the code has it: a1.t <= t, and a1.t < t once the cursor has left
\* the first point; for two or more points a2 is the point after a1 and
\* t <= a2.t, so that a target time that is the timestamp of a point is
\* bracketed with that point as a2. The cursor never decreases nor exceeds
\* the last index.
C20_BracketClosedAbove ==
  rDone
    => /\ \A i \in 0..(Len(rOut) - 1) :
            LET j == CursorAt(rIn.points, Len(rOut), i)
            IN /\ FracLeq(Frac(CursorA1(i).t, 1), rOut[i + 1].t)
               /\ j > 1 => FracLt(Frac(CursorA1(i).t, 1), rOut[i + 1].t)
               /\ Len(rIn.points) >= 2
                    => /\ j + 1 <= Len(rIn.points)
                       /\ FracLeq(rOut[i + 1].t, Frac(CursorA2(i).t, 1))
       /\ \A i \in 0..(Len(rOut) - 1) :
            /\ CursorAt(rIn.points, Len(rOut), i) <= Len(rIn.points)
            /\ i > 0 => CursorAt(rIn.points, Len(rOut), i - 1)
                           <= CursorAt(rIn.points, Len(rOut), i)

\* resample has run on three points, a target time is the timestamp of the
\* interior point, and the cursor has advanced.
C20_Witness ==
  /\ rDone
  /\ Len(rIn.points) = 3
  /\ \E i \in 1..(Len(rOut) - 2) : FracEq(rOut[i + 1].t, Frac(rIn.points[2].t, 1))
  /\ CursorAt(rIn.points, Len(rOut), Len(rOut) - 1) = 2

\* C21: for every non-empty input the timestamps of the samples of resample
\* are evenly spaced over [start, end]: sample i has the timestamp
\* start + i/(frames-1)*(end-start); sample 0 is at the time and position of
\* the first input point and the last sample at those of the last input
\* point, also for a single point.
C21_EvenlySpaced ==
  (rDone /\ Len(rIn.points) >= 1)
    => LET start == rIn.points[1].t
           end == Last(rIn.points).t
           td == Len(rOut) - 1
       IN /\ \A i \in 0..td :
               FracEq(rOut[i + 1].t, Frac(start * td + i * (end - start), td))
          /\ rOut[1].x = rIn.points[1].lon
          /\ rOut[1].y = rIn.points[1].lat
          /\ Last(rOut).x = Last(rIn.points).lon
          /\ Last(rOut).y = Last(rIn.points).lat

\* ---------------------------------------------------------- elevation gain
\* cur.ele ?? 0
EleOrZero(e) == IF e.k = "undef" THEN N(0) ELSE e

\* diff = (cur.ele ?? 0) - (prev.ele ?? 0); if (diff > 0) gain += diff:
\* what the pair (prev, cur) adds to the gain
Climb(prev, cur) ==
  LET a == EleOrZero(prev.ele)
      b == EleOrZero(cur.ele)
  IN IF isFinite(a) /\ isFinite(b) /\ b.v - a.v > 0 THEN b.v - a.v ELSE 0

\* let gain = 0; for (let i = 1; i <= upto; i++) { ... }
RECURSIVE GainUpTo(_, _)
GainUpTo(smp, upto) ==
  IF upto < 1 THEN 0
  ELSE GainUpTo(smp, upto - 1) + Climb(smp[upto], smp[upto + 1])

\* const elevGain = useMemo(...): the gain of the whole track
elevGain(smp) == IF Len(smp) = 0 THEN 0 ELSE GainUpTo(smp, Len(smp) - 1)

\* curElevGain of drawFrame(progress01)
curElevGain(smp, p) == GainUpTo(smp, Upto(smp, p))

MaxEle == 2          \* elevations are 0 or MaxEle metres, or missing
GainSteps == 4       \* progress fractions are k/GainSteps

\* Tracks of two or three points one second apart, each with or without <ele>.
GainTracks ==
  UNION { { [i \in 1..n |-> [lat |-> N(0), lon |-> N(Grid * (i - 1)), ele |-> es[i],
                              t |-> (i - 1) * 1000]] :
            es \in [1..n -> {Undefined, N(0), N(MaxEle)}] } :
          n \in 2..MaxPts }

\* A track, a duration and two progress fractions p <= q.
GainInputs ==
  { [points |-> tr, durTicks |-> k, p |-> Frac(a, GainSteps), q |-> Frac(b, GainSteps)] :
      tr \in GainTracks, k \in (MaxDurTicks - 1)..(2 * MaxDurTicks),
      a \in 0..GainSteps, b \in {GainSteps - 1, GainSteps} }

InitGain ==
  /\ InitPage
  /\ durationSec = MaxDurTicks
  /\ rIn \in GainInputs
  /\ rIn.p.n <= rIn.q.n
  /\ rOut = <<>>
  /\ rDone = FALSE

\* The samples of the track as onFile sets them, the gain of the whole
\* track and the running gains that drawFrame shows at p and at q.
CallGain ==
  /\ ~rDone
  /\ LET smp == SamplesOf(smoothElev(rIn.points), rIn.durTicks)
     IN rOut' = [samples |-> smp, total |-> elevGain(smp),
                 atP |-> curElevGain(smp, rIn.p), atQ |-> curElevGain(smp, rIn.q)]
  /\ rDone' = TRUE
  /\ UNCHANGED <<rIn, pageVars, canvas, exportVars>>

NextGain == CallGain

SpecGain == InitGain /\ [][NextGain]_vars

\* C22: the running elevation gain is non-decreasing in the progress, never
\* exceeds the gain of the whole track and equals it at progress 1, and a pair
\* of consecutive samples contributes nothing unless both have an elevation
\* and the later one is higher.
C22_GainOfPositiveClimbs ==
  rDone
    => /\ rOut.atP <= rOut.atQ
       /\ rOut.atQ <= rOut.total
       /\ rIn.q.n = rIn.q.d => rOut.atQ = rOut.total
       /\ \A i \in 1..(Len(rOut.samples) - 1) :
            Climb(rOut.samples[i], rOut.samples[i + 1]) > 0
              => /\ rOut.samples[i].ele.k = "num"
                 /\ rOut.samples[i + 1].ele.k = "num"
                 /\ rOut.samples[i + 1].ele.v > rOut.samples[i].ele.v

\* C23: while an export is in progress the phase is "frames" or "encoding"
\* and the progress lies in [0,1]; whenever no export is in progress the phase
\* is "", the progress is 0 and the abort flag is false, after completed,
\* failed and cancelled exports alike.
C23_PhaseTracksExport ==
  IF \E e \in ExportIds : InProgress(exports[e])
  THEN /\ phase \in {"frames", "encoding"}
       /\ FracLeq(Frac(0, 1), progress)
       /\ FracLeq(progress, Frac(1, 1))
  ELSE /\ phase = ""
       /\ progress = Frac(0, 1)
       /\ abortRef = FALSE

\* ---------------------------------------------------------------- playback
MaxPlayClock == 6    \* the clock of an untouched playback stops here

\* The browser runs the pending tick of the playback.
PlayTick ==
  /\ \E cb \in raf, ts \in (clock + 1)..MaxPlayClock :
       /\ clock' = ts
       /\ CommitRefs(Step(cb, ts))
  /\ UNCHANGED <<trackVars, pointerVars, exportVars, resampleVars>>

\* The preview of a loaded track that nobody touches: the browser runs the
\* pending tick, at a later timestamp each time.
InitPlayback == NoCall /\ \E d \in DurationChoices, z \in ZoomChoices : LoadedPageAt(d, z)

NextPlayback == PlayTick

SpecPlayback == InitPlayback /\ [][NextPlayback]_vars /\ WF_vars(PlayTick)

\* The playback has started early enough for the clock to reach its end.
PlaybackRunning ==
  /\ ~pausedRef
  /\ startRef # Null
  /\ raf # {}
  /\ \A cb \in raf : startRef.v + cb.durationSec <= MaxPlayClock

\* The preview loop has drawn the frame of progress 1 and has stopped.
PlaybackStopped ==
  /\ canvas.k = "frame"
  /\ FracEq(canvas.p, Frac(1, 1))
  /\ pausedRef
  /\ raf = {}
  /\ animRef = Null
  /\ startRef = Null

\* C24: with a track loaded, the preview not paused, the clock advancing and
\* no user interaction, the preview loop eventually draws a frame at progress
\* exactly 1 and then stops, paused, with no tick scheduled and the start
\* reference cleared; the progress of successive ticks never decreases and
\* never exceeds 1.
C24_PlaybackTerminates ==
  /\ PlaybackRunning ~> PlaybackStopped
  /\ [](canvas.k = "frame" => FracLeq(canvas.p, Frac(1, 1)))
  /\ [][(canvas.k = "frame" /\ canvas'.k = "frame") => FracLeq(canvas.p, canvas'.p)]_vars
  /\ [][PlaybackStopped => UNCHANGED vars]_vars

\* A playback of several ticks has stopped at progress 1.
C24_Witness == PlaybackStopped /\ clock >= 3

\* ------------------------------------------------- export beside the preview
\* The frame loops of the exports of a loaded track while the preview
\* animation runs on the same canvas.
NextFrames ==
  \/ ExportClick
  \/ Tick
  \/ \E e \in ExportIds :
       \/ LoadDone(e)
       \/ ToBlobDone(e)
       \/ ArrayBufferDone(e)
       \/ WriteDone(e)

SpecFrames == InitExport /\ [][NextFrames]_vars

\* C25: each frame i that an export has captured, and each frame it has
\* handed to the encoder, is the image of the canvas as drawn at progress
\* i/(totalFrames-1), under every interleaving of the frame loops with the
\* ticks of the preview.
C25_FrameIsItsProgress ==
  \A e \in ExportIds :
    LET x == exports[e]
    IN /\ x.pc \in {"toBlob", "arrayBuffer"}
            => x.img = drawFrame(samples, FrameProgress(x.i, x.total))
       /\ \A k \in 1..Len(x.issued) :
            x.issued[k].img = drawFrame(samples, FrameProgress(x.issued[k].i, x.total))

\* A tick of the preview has drawn on the canvas while the capture of a
\* later frame of an export was pending, and the frame has been issued.
C25_Witness ==
  \E e \in ExportIds :
    LET x == exports[e]
    IN /\ x.pc = "writeFile"
       /\ x.i >= 1
       /\ canvas # x.img
       /\ clock > 0

\* C26: at most one export is in progress at any time: a click on Export MP4
\* while an exportMp4 has not finished starts no second frame loop.
C26_OneExportAtATime ==
  Cardinality({e \in ExportIds : InProgress(exports[e])}) <= 1

\* C27: the click event of a pointer gesture that dragged the route or the
\* legend (pointerdown, pointermoves that moved it, pointerup, click) does not
\* toggle pause/play: pausedRef is the same after the click as before it.
C27_DragDoesNotToggle ==
  [][(pointer = "released" /\ pointer' = "idle" /\ dragged) => pausedRef' = pausedRef]_vars

\* C28: at most one tick of the preview is pending at any time, after any
\* sequence of effect re-runs, pause/resume clicks and ticks, and animRef is
\* non-null only while a tick is pending.
C28_OnePendingTick ==
  /\ Cardinality(raf) <= 1
  /\ animRef # Null => \E cb \in raf : N(cb.id) = animRef

\* C29: the answer of a weather lookup that was issued for an earlier track
\* and arrives after a newer track has been loaded never overwrites the
\* weather state: an answer that is stored is one for the samples on display.
C29_NoLateOverwrite ==
  [][(weather' # weather /\ Len(samples) > 0)
       => /\ weather'.startMs = LookupOfSamples(samples).startMs
          /\ weather'.endMs = LookupOfSamples(samples).endMs]_vars

\* --------------------------------------------------------- the load pipeline
\* A timed track of n points one second apart on a meridian, v metres apart.
LoadFile(n, v) ==
  [trkpt |-> [i \in 1..n |-> Node(N((i - 1) * v), N(0), Undefined, N((i - 1) * 1000))],
   rtept |-> <<>>]

\* Tracks of one and two points and tracks around the 50 points of onFile,
\* with privacy distances from below 0 to MaxMeters.
LoadInputs ==
  { [file |-> LoadFile(n, v), privacyM |-> m] :
      n \in {1, 2} \cup ((PrivacyMinPoints - 1)..(PrivacyMinPoints + 1 + MaxExtra)),
      v \in {1, 2}, m \in (0 - 1)..MaxMeters }

InitLoad ==
  /\ InitPage
  /\ durationSec = MaxDurTicks
  /\ rIn \in LoadInputs
  /\ rOut = <<>>
  /\ rDone = FALSE

\* The points of onFile after removeSpikes, the points it resamples, and
\* trimPrivacy called on the points after removeSpikes.
CallLoad ==
  /\ ~rDone
  /\ LET spiked == removeSpikes(smoothElev(parseGpx(rIn.file, 0)))
     IN rOut' = [spiked |-> spiked,
                 cleaned |-> CleanedPoints(rIn.file, 0, rIn.privacyM),
                 trimmed |-> trimPrivacy(spiked, rIn.privacyM)]
  /\ rDone' = TRUE
  /\ UNCHANGED <<rIn, pageVars, canvas, exportVars>>

NextLoad == CallLoad

SpecLoad == InitLoad /\ [][NextLoad]_vars

\* C30: onFile trims exactly when the privacy distance is > 0 and more than
\* 50 points remain after removeSpikes: then it resamples the result of
\* trimPrivacy, whose first point is the first one at least that distance
\* from the start; a track of 2 to 50 points keeps its start and end; and
\* trimPrivacy returns its input when meters <= 0 or with fewer than 2 points.
C30_TrimOnlyLongTracks ==
  rDone
    => LET m == rIn.privacyM
           sp == rOut.spiked
           cl == rOut.cleaned
       IN /\ (m > 0 /\ Len(sp) > 50)
               => LET step == sp[2].lat.v - sp[1].lat.v
                      cut == cl[1].lat.v - sp[1].lat.v
                  IN /\ cl = rOut.trimmed
                     /\ cut >= m /\ cut - step < m
          /\ ~(m > 0 /\ Len(sp) > 50) => cl = sp
          /\ (m <= 0 \/ Len(sp) < 2) => rOut.trimmed = sp

\* onFile has trimmed a track of 51 points.
C30_Witness ==
  /\ rDone
  /\ rIn.privacyM > 0
  /\ Len(rOut.spiked) = 51
  /\ Len(rOut.cleaned) < 51
====
